---- MODULE Spec2Model ----
(***************************************************************************)
(* Model of drivers/media/video/uvc/uvc_v4l2.c: the V4L2 control surface   *)
(* of the UVC driver (format negotiation, privilege arbitration, main and  *)
(* still buffer pipelines).                                                *)
(*                                                                         *)
(* One execution context per open handle.  A step of the model is one      *)
(* access to shared memory (an atomic operation on stream->active, a       *)
(* critical section of stream->mutex, a call into the buffer queue or the  *)
(* device) or one store to handle->state.  A request ends in pc = "done"   *)
(* with its return value in loc[h].ret; Return hands it back to the        *)
(* caller.                                                                 *)
(*                                                                         *)
(* Return values: the C code returns -EBUSY both from the privilege gate   *)
(* and from state preconditions.  The model keeps the two causes apart:    *)
(* "DeviceBusy" is -EBUSY of uvc_acquire_privileges / uvc_has_privileges,  *)
(* "Busy" is -EBUSY of a queue/decoder precondition.  "EXT" is a negative  *)
(* errno passed up from a collaborator outside this file (probe, queue,    *)
(* device control).                                                        *)
(***************************************************************************)
EXTENDS Integers, Sequences, FiniteSets, TLC

\* ------------------------------------------------------------ bounds
NumHandles == 2
MaxBufs == 1

Handles == 1..NumHandles

\* The privilege arbitration is also checked with one more handle.
ArbHandles == 1..(NumHandles + 1)

\* unsigned int and __u32 arithmetic wraps at 2^32.  TLC's integers are 32 bits
\* wide, so the model keeps the wrap-around with a narrower word.
WordBits == 8
U32 == 2 ^ WordBits

\* __u16 (frame and request sizes) is half as wide as unsigned int.
U16 == 2 ^ (WordBits \div 2)

\* The negotiation functions are applied to frame lists of up to MaxFrames
\* frames and interval lists of up to MaxIntervals intervals.
MaxFrames == 3
MaxIntervals == 3

\* ------------------------------------------------------------ state
VARIABLES
    pc,                 \* per handle: position of its execution context
    hstate,             \* handle->state
    loc,                \* per handle: locals of the request in progress
    active,             \* stream->active (atomic_t)
    users,              \* stream->dev->users (atomic_t)
    mutex,              \* stream->mutex: 0 free, h held by handle h, -1 held by a dead task
    cur_format,         \* stream->cur_format (index into the format table, 0 = NULL)
    cur_frame,          \* stream->cur_frame  (bFrameIndex, 0 = NULL)
    ctrl,               \* stream->ctrl
    queue,              \* stream->queue
    still_queue,        \* stream->still_queue
    still_ctrl,         \* stream->still_ctrl
    still_format,       \* stream->still_format
    still_frame,        \* stream->still_frame
    still_img_configed, \* stream->still_img_configed
    still_decoding,     \* stream->still_decoding
    still_waiting_frame,\* stream->still_waiting_frame
    refused,            \* history: what the last uvc_acquire_privileges of one handle returned
    solo,               \* history, per handle: its request was issued with every other handle closed
    nego,               \* one call of a negotiation function: its arguments and its result
    disconnected        \* stream->dev->state & UVC_DEV_DISCONNECTED

vars == <<pc, hstate, loc, active, users, mutex, cur_format, cur_frame, ctrl,
          queue, still_queue, still_ctrl, still_format, still_frame,
          still_img_configed, still_decoding, still_waiting_frame, refused, solo,
          nego, disconnected>>

mainVars == <<cur_format, cur_frame, ctrl>>
stillVars == <<still_ctrl, still_format, still_frame, still_img_configed,
               still_decoding, still_waiting_frame>>

UVC_HANDLE_PASSIVE == "PASSIVE"
UVC_HANDLE_ACTIVE == "ACTIVE"

\* ------------------------------------------------------------ capability table
\* stream->format[]: one format, two frames (one discrete, one stepwise),
\* one still frame size.
Frame1 ==
    [wWidth |-> 2, wHeight |-> 2, bFrameIndex |-> 1, dwDefaultFrameInterval |-> 3,
     bFrameIntervalType |-> 2, dwFrameInterval |-> <<3, 5>>]

Frame2 ==
    [wWidth |-> 4, wHeight |-> 3, bFrameIndex |-> 2, dwDefaultFrameInterval |-> 4,
     bFrameIntervalType |-> 0, dwFrameInterval |-> <<2, 6, 2>>]

StreamFormats ==
    << [fcc |-> 1, index |-> 1, frame |-> <<Frame1, Frame2>>,
        still_frame |-> << [wWidth |-> 4, wHeight |-> 3] >>] >>

ZeroCtrl ==
    [bmHint |-> 0, bFormatIndex |-> 0, bFrameIndex |-> 0, dwFrameInterval |-> 0,
     dwMaxVideoFrameSize |-> 0]

FrameOf(fi, ri) == StreamFormats[fi].frame[ri]

EmptyQueue == [count |-> 0, buf_size |-> 0, streaming |-> FALSE, queued |-> 0]

\* ------------------------------------------------------------ negotiation engine
Min(x, y) == IF x < y THEN x ELSE y

AbsDiff(x, y) == IF x > y THEN x - y ELSE y - x

\* The discrete scan as it would be if it stopped as soon as the distance
\* no longer decreases.
RECURSIVE IntervalScanEager(_, _, _, _, _)
IntervalScanEager(list, n, interval, i, best) ==
    IF i >= n THEN i
    ELSE LET dist == AbsDiff(interval, list[i + 1])
         IN  IF i > 0 /\ dist >= best THEN i
             ELSE IntervalScanEager(list, n, interval, i + 1, dist)

\* The discrete scan of uvc_try_frame_interval: the value of i when the loop ends.
RECURSIVE IntervalScan(_, _, _, _, _)
IntervalScan(list, n, interval, i, best) ==
    IF i >= n THEN i
    ELSE LET dist == AbsDiff(interval, list[i + 1])
         IN  IF dist > best THEN i
             ELSE IntervalScan(list, n, interval, i + 1, dist)

uvc_try_frame_interval(frame, interval) ==
    IF frame.bFrameIntervalType # 0
    THEN LET i == IntervalScan(frame.dwFrameInterval, frame.bFrameIntervalType,
                               interval, 0, U32 - 1)
         IN  frame.dwFrameInterval[(i - 1) + 1]
    ELSE LET min == frame.dwFrameInterval[1]
             max == frame.dwFrameInterval[2]
             step == frame.dwFrameInterval[3]
             t == ((interval - min + (step \div 2)) % U32) \div step
             v == (min + ((t * step) % U32)) % U32
         IN  IF v > max THEN max ELSE v

\* The format lookup shared by uvc_v4l2_try_format and uvc_v4l2_try_format_still:
\* position of the first format with the requested fcc, 0 when there is none.
RECURSIVE FormatScan(_, _, _)
FormatScan(formats, fcc, i) ==
    IF i > Len(formats) THEN 0
    ELSE IF formats[i].fcc = fcc THEN i
    ELSE FormatScan(formats, fcc, i + 1)

FindFormat(fcc) == FormatScan(StreamFormats, fcc, 1)

\* Overlap distance between a frame and the requested size (unsigned int).
FrameDist(w, h, rw, rh) ==
    (w * h + rw * rh - 2 * ((Min(w, rw) * Min(h, rh)) % U32)) % U32

\* The frame-size loop of uvc_v4l2_try_format: position of the selected
\* frame, 0 when the format has no frame.
RECURSIVE FrameScan(_, _, _, _, _, _)
FrameScan(frames, rw, rh, i, maxd, best) ==
    IF i > Len(frames) THEN best
    ELSE LET d == FrameDist(frames[i].wWidth, frames[i].wHeight, rw, rh)
             nmaxd == IF d < maxd THEN d ELSE maxd
             nbest == IF d < maxd THEN i ELSE best
         IN  IF nmaxd = 0 THEN nbest
             ELSE FrameScan(frames, rw, rh, i + 1, nmaxd, nbest)

\* rw and rh are __u16 locals assigned from the request's 32-bit width and
\* height.
SelectFrame(format, rw, rh) ==
    FrameScan(format.frame, rw % U16, rh % U16, 1, U32 - 1, 0)

\* uvc_v4l2_get_still_idx: 1-based index of the still frame with exactly the
\* requested size, -1 (for -EINVAL) when there is none.
RECURSIVE StillScan(_, _, _, _)
StillScan(frames, rw, rh, i) ==
    IF i > Len(frames) THEN Len(frames) + 1
    ELSE IF rw = frames[i].wWidth /\ rh = frames[i].wHeight THEN i
    ELSE StillScan(frames, rw, rh, i + 1)

uvc_v4l2_get_still_idx(format, rw, rh) ==
    IF Len(format.still_frame) = 0 THEN -1
    ELSE LET i == StillScan(format.still_frame, rw % U16, rh % U16, 1)
         IN  IF i <= Len(format.still_frame) THEN i ELSE -1

\* Device quirks (stream->dev->quirks) of the modelled device.
QuirkProbeExtraFields == TRUE
QuirkReduceMemUsage == FALSE

\* The candidate uvc_v4l2_try_format builds for format fi, frame ri before
\* it probes the device.
TryFormatCandidate(fi, ri) ==
    LET frame == FrameOf(fi, ri)
        p0 == [bmHint |-> 1,
               bFormatIndex |-> StreamFormats[fi].index,
               bFrameIndex |-> frame.bFrameIndex,
               dwFrameInterval |->
                   uvc_try_frame_interval(frame, frame.dwDefaultFrameInterval),
               dwMaxVideoFrameSize |-> 0]
        p1 == IF QuirkProbeExtraFields
              THEN [p0 EXCEPT !.dwMaxVideoFrameSize = ctrl.dwMaxVideoFrameSize]
              ELSE p0
    IN  IF QuirkReduceMemUsage
        THEN [p1 EXCEPT !.dwMaxVideoFrameSize =
                  (frame.wWidth * frame.wHeight * 2) \div 5]
        ELSE p1

\* ------------------------------------------------------------ collaborators
\* uvc_probe_video: the device rejects the candidate, or accepts it and
\* reports the frame size it will deliver.
ProbeSizes == {8, 24}

uvc_probe_video(p) ==
    {[ok |-> FALSE, probe |-> p]} \cup
    {[ok |-> TRUE, probe |-> [p EXCEPT !.dwMaxVideoFrameSize = s]] : s \in ProbeSizes}

\* uvc_probe_still: same exchange through the still probe control.
uvc_probe_still(p) ==
    {[ok |-> FALSE, probe |-> p]} \cup
    {[ok |-> TRUE, probe |-> [p EXCEPT !.dwMaxVideoFrameSize = s]] : s \in ProbeSizes}

\* uvc_free_buffers: nothing to free succeeds; allocated buffers are freed,
\* or the call fails (buffers still mapped) and leaves the queue as it is.
uvc_free_buffers(q) ==
    IF q.count = 0 THEN {[ret |-> 0, q |-> q]}
    ELSE {[ret |-> 0, q |-> [q EXCEPT !.count = 0, !.buf_size = 0, !.queued = 0]],
          [ret |-> -1, q |-> q]}

\* uvc_alloc_buffers: frees what the queue holds, then allocates up to
\* nbuffers buffers of buflength bytes; returns the number allocated.
uvc_alloc_buffers(q, nbuffers, buflength) ==
    LET freed == uvc_free_buffers(q)
    IN  {f \in freed : f.ret < 0} \cup
        UNION { IF nbuffers = 0 THEN {f}
                ELSE {[ret |-> -1, q |-> f.q]} \cup
                     {[ret |-> k,
                       q |-> [f.q EXCEPT !.count = k, !.buf_size = buflength]] :
                          k \in 1..nbuffers}
              : f \in {g \in freed : g.ret = 0} }

\* uvc_queue_allocated, uvc_queue_streaming
uvc_queue_allocated(q) == q.count > 0
uvc_queue_streaming(q) == q.streaming

\* ------------------------------------------------------------ requests
\* A request as the handlers read it: tok is "the buffer type equals
\* stream->type (and the memory type is MMAP)", still is the still magic in
\* priv / reserved[0] / flags, n is a count, an input number or an interval.
Req(tok, still, fcc, w, h, n) ==
    [tok |-> tok, still |-> still, fcc |-> fcc, w |-> w, h |-> h, n |-> n]

NoReq == Req(TRUE, FALSE, 0, 0, 0, 0)

\* Format requests: an exact frame size, a size between the two frames, an
\* unknown fcc, a wrong buffer type; each for the main and the still path.
BadTypeFmt == Req(FALSE, FALSE, 1, 2, 2, 0)

MainFmtReqs ==
    {Req(TRUE, FALSE, 1, 2, 2, 0), Req(TRUE, FALSE, 1, 4, 3, 0),
     Req(TRUE, FALSE, 2, 2, 2, 0), BadTypeFmt}

\* The still requests add a width that exceeds __u16 by a still frame's
\* width.
StillFmtReqs ==
    {[r EXCEPT !.still = TRUE] : r \in MainFmtReqs}
    \cup {Req(TRUE, TRUE, 1, U16 + 4, 3, 0)}

\* Stream parameter requests: an interval, or a wrong buffer type.
BadTypeParm == Req(FALSE, FALSE, 0, 0, 0, 5)

ParmReqs == {Req(TRUE, FALSE, 0, 0, 0, 5), BadTypeParm}

\* Buffer requests: a count, or a wrong buffer or memory type.
MainBufReqs ==
    {Req(TRUE, FALSE, 0, 0, 0, n) : n \in 0..MaxBufs} \cup {Req(FALSE, FALSE, 0, 0, 0, 1)}

StillBufReqs == {[r EXCEPT !.still = TRUE] : r \in MainBufReqs}

\* Queue requests (QUERYBUF, QBUF, DQBUF); n = 1 is O_NONBLOCK.
MainQReqs == {Req(TRUE, FALSE, 0, 0, 0, n) : n \in 0..1}

StillQReqs == {[r EXCEPT !.still = TRUE] : r \in MainQReqs}

TypeReqs == {Req(tok, FALSE, 0, 0, 0, 0) : tok \in BOOLEAN}

NoSnap == <<0, 0, ZeroCtrl>>

NewLoc(op, req) ==
    [op |-> op, ret |-> "none", req |-> req, fi |-> 0, ri |-> 0, n |-> 0,
     probe |-> ZeroCtrl, snap |-> NoSnap, triggers |-> 0]

NoLoc == NewLoc("none", NoReq)

MainConfig == <<cur_format, cur_frame, ctrl>>

\* ------------------------------------------------------------ initial state
\* No call of a negotiation function is on record.
NotCalled == -1

Nego(fn, frames, rw, rh, frame, interval) ==
    [fn |-> fn, frames |-> frames, rw |-> rw, rh |-> rh, frame |-> frame,
     interval |-> interval, out |-> NotCalled]

NoNego == Nego("none", << >>, 0, 0, Frame1, 0)

\* The stream and its handles after uvc_v4l2 has been set up: no handle
\* open, nothing negotiated, nothing allocated.
StreamInit ==
    /\ pc = [h \in ArbHandles |-> "closed"]
    /\ hstate = [h \in ArbHandles |-> UVC_HANDLE_PASSIVE]
    /\ loc = [h \in ArbHandles |-> NoLoc]
    /\ active = 0
    /\ users = 0
    /\ mutex = 0
    /\ cur_format = 0
    /\ cur_frame = 0
    /\ ctrl = ZeroCtrl
    /\ queue = EmptyQueue
    /\ still_queue = EmptyQueue
    /\ still_ctrl = ZeroCtrl
    /\ still_format = 0
    /\ still_frame = 0
    /\ still_img_configed = FALSE
    /\ still_decoding = FALSE
    /\ still_waiting_frame = FALSE
    /\ refused = "no"
    /\ solo = [h \in ArbHandles |-> FALSE]
    /\ disconnected = FALSE

Init ==
    /\ StreamInit
    /\ nego = NoNego

\* ------------------------------------------------------------ history
\* refused records what the caller of one handle, Observed, has seen of the
\* privilege gate: "refused" once a request of it returned -EBUSY from
\* uvc_acquire_privileges, "released" once a privileged handle has been
\* closed after that, "no" after it acquired the privileges or was closed.
\* Handle h moves to position p.
Observed == NumHandles + 1

RefusedHistory(h, p) ==
    IF h = Observed
    THEN IF p = "closed" \/ pc[h] = "acq_won" THEN "no"
         ELSE IF pc[h] = "acq_lost" THEN "refused"
         ELSE refused
    ELSE IF refused = "refused" /\ pc[h] = "rel_end" THEN "released"
         ELSE refused

\* solo[g] records that the request g is executing was issued by a Passive
\* g while every other handle was closed.
SoloHistory(h, p) ==
    [solo EXCEPT ![h] =
        IF p \in {"idle", "closed"} THEN FALSE
        ELSE IF pc[h] = "idle"
             THEN /\ hstate[h] = UVC_HANDLE_PASSIVE
                  /\ \A a \in ArbHandles \ {h} : pc[a] = "closed"
        ELSE solo[h]]

\* ------------------------------------------------------------ step helpers
\* Handle h moves to position p; no request calls on the record nego.
Goto(h, p) ==
    /\ pc' = [pc EXCEPT ![h] = p]
    /\ refused' = RefusedHistory(h, p)
    /\ solo' = SoloHistory(h, p)
    /\ UNCHANGED <<nego, disconnected>>

\* The request of handle h returns r; l is the final value of its locals.
Finish(h, l, r) ==
    /\ Goto(h, "done")
    /\ loc' = [loc EXCEPT ![h] = [l EXCEPT !.ret = r]]

streamVars == <<cur_format, cur_frame, ctrl, queue, still_queue, still_ctrl,
                still_format, still_frame, still_img_configed, still_decoding,
                still_waiting_frame>>

\* The first step of the body of each request that needs privileges.
BodyPc(op) ==
    CASE op = "S_INPUT" -> "si_body"
      [] op = "S_PARM" -> "sp_lock"
      [] op = "S_FMT" -> "sf_try"
      [] op = "REQBUFS" -> "rb_alloc"

\* ------------------------------------------------------------ privilege management
uvc_has_privileges(h) == hstate[h] = UVC_HANDLE_ACTIVE

\* uvc_acquire_privileges up to the atomic_inc_return: an Active handle goes
\* on with the request; otherwise the counter is incremented and tested.
uvc_acquire_privileges(h, op) ==
    IF hstate[h] = UVC_HANDLE_ACTIVE
    THEN /\ Goto(h, BodyPc(op))
         /\ UNCHANGED active
    ELSE /\ active' = active + 1
         /\ Goto(h, IF active + 1 # 1 THEN "acq_lost" ELSE "acq_won")

\* uvc_acquire_privileges, the increment returned 1: handle->state = ACTIVE.
AcquireWon(h) ==
    /\ pc[h] = "acq_won"
    /\ hstate' = [hstate EXCEPT ![h] = UVC_HANDLE_ACTIVE]
    /\ Goto(h, BodyPc(loc[h].op))
    /\ UNCHANGED <<loc, active, users, mutex, streamVars>>

\* uvc_acquire_privileges as it would be without the atomic_dec of the
\* failure path.
AcquireLostNoRollback(h) ==
    /\ pc[h] = "acq_lost"
    /\ Finish(h, loc[h], "DeviceBusy")
    /\ UNCHANGED <<active, hstate, users, mutex, streamVars>>

\* uvc_acquire_privileges, the increment did not return 1: atomic_dec and
\* -EBUSY, which every caller returns at once.
AcquireLost(h) ==
    /\ pc[h] = "acq_lost"
    /\ active' = active - 1
    /\ Finish(h, loc[h], "DeviceBusy")
    /\ UNCHANGED <<hstate, users, mutex, streamVars>>

\* uvc_dismiss_privileges up to the atomic_dec.
uvc_dismiss_privileges(h) ==
    IF hstate[h] = UVC_HANDLE_ACTIVE
    THEN active' = active - 1
    ELSE UNCHANGED active

\* uvc_dismiss_privileges, the store handle->state = PASSIVE.
DismissStore(h) == hstate' = [hstate EXCEPT ![h] = UVC_HANDLE_PASSIVE]

\* ------------------------------------------------------------ open, release
\* uvc_v4l2_open: fails without effect (device gone, no power, no memory,
\* status endpoint) or creates a Passive handle.
uvc_v4l2_open(h) ==
    /\ pc[h] = "closed"
    /\ \/ /\ ~disconnected
          /\ users' = users + 1
          /\ hstate' = [hstate EXCEPT ![h] = UVC_HANDLE_PASSIVE]
          /\ Goto(h, "idle")
          /\ UNCHANGED <<loc, active, mutex, streamVars>>
       \/ UNCHANGED vars

\* The end of uvc_v4l2_release: handle->state = PASSIVE, kfree(handle),
\* the users count.
ReleaseEnd(h) ==
    /\ DismissStore(h)
    /\ Goto(h, "closed")
    /\ loc' = [loc EXCEPT ![h] = NoLoc]
    /\ users' = users - 1

\* uvc_v4l2_release, first step.  A privileged handle stops the stream
\* (uvc_video_enable(stream, 0)); an unprivileged one is dismissed and freed.
\* A task killed inside a request (pc = "dead") has its files released.
uvc_v4l2_release(h) ==
    /\ pc[h] \in {"idle", "dead"}
    /\ IF uvc_has_privileges(h)
       THEN /\ queue' = [queue EXCEPT !.streaming = FALSE]
            /\ Goto(h, "rel_free")
            /\ loc' = [loc EXCEPT ![h] = NewLoc("release", NoReq)]
            /\ UNCHANGED <<hstate, active, users, mutex, cur_format, cur_frame,
                           ctrl, still_queue, stillVars>>
       ELSE /\ uvc_dismiss_privileges(h)
            /\ ReleaseEnd(h)
            /\ UNCHANGED <<mutex, streamVars>>

\* uvc_v4l2_release: uvc_free_buffers(&stream->queue), result only logged.
ReleaseFreeMain(h) ==
    /\ pc[h] = "rel_free"
    /\ \E r \in uvc_free_buffers(queue) : queue' = r.q
    /\ Goto(h, "rel_free_still")
    /\ UNCHANGED <<hstate, loc, active, users, mutex, cur_format, cur_frame,
                   ctrl, still_queue, stillVars>>

\* uvc_v4l2_release: uvc_free_buffers(&stream->still_queue), result only logged.
ReleaseFreeStill(h) ==
    /\ pc[h] = "rel_free_still"
    /\ \E r \in uvc_free_buffers(still_queue) : still_queue' = r.q
    /\ Goto(h, "rel_dismiss")
    /\ UNCHANGED <<hstate, loc, active, users, mutex, cur_format, cur_frame,
                   ctrl, queue, stillVars>>

\* uvc_v4l2_release: uvc_dismiss_privileges, the atomic_dec.
ReleaseDismiss(h) ==
    /\ pc[h] = "rel_dismiss"
    /\ uvc_dismiss_privileges(h)
    /\ Goto(h, "rel_end")
    /\ UNCHANGED <<hstate, loc, users, mutex, streamVars>>

ReleaseFinal(h) ==
    /\ pc[h] = "rel_end"
    /\ ReleaseEnd(h)
    /\ UNCHANGED <<active, mutex, streamVars>>

\* The request's return value is handed to the caller.
Return(h) ==
    /\ pc[h] = "done"
    /\ Goto(h, "idle")
    /\ loc' = [loc EXCEPT ![h] = NoLoc]
    /\ UNCHANGED <<hstate, active, users, mutex, streamVars>>

\* ------------------------------------------------------------ VIDIOC_S_INPUT
\* chain->selector->bNrInPins of the modelled device.
NrInPins == 1

VIDIOC_S_INPUT(h) ==
    /\ pc[h] = "idle"
    /\ \E n \in 0..1 :
          loc' = [loc EXCEPT ![h] = NewLoc("S_INPUT", Req(TRUE, FALSE, 0, 0, 0, n))]
    /\ uvc_acquire_privileges(h, "S_INPUT")
    /\ UNCHANGED <<hstate, users, mutex, streamVars>>

\* VIDIOC_S_INPUT as it would be if a failed request gave the privileges
\* back before it returned.
SInputBodyDismisses(h) ==
    /\ pc[h] = "si_body"
    /\ LET input == (loc[h].req.n + 1) % U32
       IN  IF input = 0 \/ input > NrInPins
           THEN /\ Finish(h, loc[h], "EINVAL")
                /\ active' = active - 1
                /\ hstate' = [hstate EXCEPT ![h] = UVC_HANDLE_PASSIVE]
           ELSE /\ \E r \in {"OK", "EXT"} : Finish(h, loc[h], r)
                /\ UNCHANGED <<hstate, active>>
    /\ UNCHANGED <<users, mutex, streamVars>>

\* VIDIOC_S_INPUT after the privileges: range check, then the selector
\* control is written (uvc_query_ctrl).
SInputBody(h) ==
    /\ pc[h] = "si_body"
    /\ LET input == (loc[h].req.n + 1) % U32
       IN  IF input = 0 \/ input > NrInPins
           THEN Finish(h, loc[h], "EINVAL")
           ELSE \E r \in {"OK", "EXT"} : Finish(h, loc[h], r)
    /\ UNCHANGED <<hstate, active, users, mutex, streamVars>>

\* ------------------------------------------------------------ VIDIOC_REQBUFS
\* VIDIOC_REQBUFS on the main queue: type and memory check, then the
\* privileges.
ReqBufsMain(h, l) ==
    /\ IF ~l.req.tok
       THEN /\ Finish(h, l, "EINVAL")
            /\ UNCHANGED active
       ELSE /\ loc' = [loc EXCEPT ![h] = l]
            /\ uvc_acquire_privileges(h, "REQBUFS")
    /\ UNCHANGED still_queue

\* VIDIOC_REQBUFS with the still magic as it would be if it went through
\* the privileges like the main queue.
ReqBufsStillGated(h, l) == ReqBufsMain(h, l)

\* VIDIOC_REQBUFS with the still magic: memory check, no privileges;
\* uvc_alloc_buffers on the still queue under stream->mutex.
ReqBufsStill(h, l) ==
    /\ IF ~l.req.tok
       THEN /\ Finish(h, l, "EINVAL")
            /\ UNCHANGED still_queue
       ELSE /\ mutex = 0
            /\ \E r \in uvc_alloc_buffers(still_queue, l.req.n,
                                          still_ctrl.dwMaxVideoFrameSize) :
                  /\ still_queue' = r.q
                  /\ IF r.ret < 0 THEN Finish(h, l, "EXT")
                     ELSE Finish(h, [l EXCEPT !.n = r.ret], "OK")
    /\ UNCHANGED active

VIDIOC_REQBUFS(h, reqs) ==
    /\ pc[h] = "idle"
    /\ \E req \in reqs :
          IF req.still
          THEN ReqBufsStill(h, NewLoc("REQBUFS", req))
          ELSE ReqBufsMain(h, NewLoc("REQBUFS", req))
    /\ UNCHANGED <<hstate, users, mutex, cur_format, cur_frame, ctrl, queue,
                   stillVars>>

\* VIDIOC_REQBUFS as it would be without "if (ret == 0)
\* uvc_dismiss_privileges(handle)": a result of zero buffers returns at once.
ReqBufsAllocKeeps(h) ==
    /\ pc[h] = "rb_alloc"
    /\ mutex = 0
    /\ \E r \in uvc_alloc_buffers(queue, loc[h].req.n, ctrl.dwMaxVideoFrameSize) :
          /\ queue' = r.q
          /\ IF r.ret < 0 THEN Finish(h, loc[h], "EXT")
             ELSE Finish(h, [loc[h] EXCEPT !.n = r.ret], "OK")
    /\ UNCHANGED <<hstate, active, users, mutex, cur_format, cur_frame, ctrl,
                   still_queue, stillVars>>

\* VIDIOC_REQBUFS: uvc_alloc_buffers under stream->mutex.  A result of zero
\* buffers goes on to dismiss the privileges.
ReqBufsAlloc(h) ==
    /\ pc[h] = "rb_alloc"
    /\ mutex = 0
    /\ \E r \in uvc_alloc_buffers(queue, loc[h].req.n, ctrl.dwMaxVideoFrameSize) :
          /\ queue' = r.q
          /\ IF r.ret < 0 THEN Finish(h, loc[h], "EXT")
             ELSE IF r.ret = 0
             THEN /\ Goto(h, "rb_dismiss")
                  /\ loc' = [loc EXCEPT ![h].n = 0]
             ELSE Finish(h, [loc[h] EXCEPT !.n = r.ret], "OK")
    /\ UNCHANGED <<hstate, active, users, mutex, cur_format, cur_frame, ctrl,
                   still_queue, stillVars>>

\* VIDIOC_REQBUFS: uvc_dismiss_privileges, the atomic_dec.
ReqBufsDismiss(h) ==
    /\ pc[h] = "rb_dismiss"
    /\ uvc_dismiss_privileges(h)
    /\ Goto(h, "rb_passive")
    /\ UNCHANGED <<hstate, loc, users, mutex, streamVars>>

\* VIDIOC_REQBUFS: uvc_dismiss_privileges, handle->state = PASSIVE; return 0.
ReqBufsPassive(h) ==
    /\ pc[h] = "rb_passive"
    /\ DismissStore(h)
    /\ Finish(h, loc[h], "OK")
    /\ UNCHANGED <<active, users, mutex, streamVars>>

\* ------------------------------------------------------------ main format
\* uvc_v4l2_try_format up to mutex_lock: the type check, the format lookup
\* and the frame-size selection fail -EINVAL; otherwise the candidate is
\* built, the mutex taken (the quirk reads stream->ctrl) and the probe
\* started.  l holds the locals of the calling request.
TryFormatEnter(h, l) ==
    LET fi == FindFormat(l.req.fcc)
        ri == IF fi = 0 THEN 0 ELSE SelectFrame(StreamFormats[fi], l.req.w, l.req.h)
    IN  IF ~l.req.tok \/ fi = 0 \/ ri = 0
        THEN /\ Finish(h, l, "EINVAL")
             /\ UNCHANGED mutex
        ELSE /\ mutex = 0
             /\ mutex' = h
             /\ loc' = [loc EXCEPT ![h] =
                           [l EXCEPT !.fi = fi, !.ri = ri,
                                     !.probe = TryFormatCandidate(fi, ri)]]
             /\ Goto(h, "try_probe")

\* What uvc_v4l2_try_format's caller does with a probe that succeeded:
\* VIDIOC_TRY_FMT returns, uvc_v4l2_set_format goes on to commit.
AfterTryFormat(h, l) ==
    IF l.op = "TRY_FMT"
    THEN Finish(h, l, "OK")
    ELSE /\ loc' = [loc EXCEPT ![h] = l]
         /\ Goto(h, "sf_commit")

\* uvc_v4l2_try_format as it would be if it stored the probed parameters
\* in stream->ctrl.
TryFormatProbeCommits(h) ==
    /\ pc[h] = "try_probe"
    /\ mutex' = 0
    /\ \E r \in uvc_probe_video(loc[h].probe) :
          IF ~r.ok
          THEN /\ Finish(h, loc[h], "EXT")
               /\ UNCHANGED ctrl
          ELSE /\ ctrl' = r.probe
               /\ AfterTryFormat(h, [loc[h] EXCEPT !.probe = r.probe])
    /\ UNCHANGED <<hstate, active, users, cur_format, cur_frame, queue,
                   still_queue, stillVars>>

\* uvc_v4l2_try_format: uvc_probe_video returns and the mutex is released.
TryFormatProbe(h) ==
    /\ pc[h] = "try_probe"
    /\ mutex' = 0
    /\ \E r \in uvc_probe_video(loc[h].probe) :
          IF ~r.ok
          THEN Finish(h, loc[h], "EXT")
          ELSE AfterTryFormat(h, [loc[h] EXCEPT !.probe = r.probe])
    /\ UNCHANGED <<hstate, active, users, streamVars>>

VIDIOC_TRY_FMT(h, reqs) ==
    /\ pc[h] = "idle"
    /\ \E req \in reqs :
          TryFormatEnter(h, [NewLoc("TRY_FMT", req) EXCEPT !.snap = MainConfig])
    /\ UNCHANGED <<hstate, active, users, streamVars>>

\* uvc_v4l2_set_format_still up to the read of stream->still_decoding (no
\* mutex held).
SetFormatStillEnter(h, l) ==
    IF ~l.req.tok THEN Finish(h, l, "EINVAL")
    ELSE IF still_decoding THEN Finish(h, l, "Busy")
    ELSE /\ loc' = [loc EXCEPT ![h] = l]
         /\ Goto(h, "ss_free")

\* VIDIOC_S_FMT, main format: the privileges come first.
SetFormatEnter(h, l) ==
    /\ loc' = [loc EXCEPT ![h] = [l EXCEPT !.snap = MainConfig]]
    /\ uvc_acquire_privileges(h, "S_FMT")

\* VIDIOC_S_FMT: the still magic in priv selects uvc_v4l2_set_format_still.
VIDIOC_S_FMT(h, reqs) ==
    /\ pc[h] = "idle"
    /\ \E req \in reqs :
          IF req.still
          THEN /\ SetFormatStillEnter(h, NewLoc("S_FMT", req))
               /\ UNCHANGED active
          ELSE SetFormatEnter(h, NewLoc("S_FMT", req))
    /\ UNCHANGED <<hstate, users, mutex, streamVars>>

\* uvc_v4l2_set_format: the type check and the call of uvc_v4l2_try_format.
SetFormatTry(h) ==
    /\ pc[h] = "sf_try"
    /\ TryFormatEnter(h, loc[h])
    /\ UNCHANGED <<hstate, active, users, streamVars>>

\* uvc_v4l2_set_format as it would be without the uvc_queue_allocated test.
SetFormatCommitUnchecked(h) ==
    /\ ctrl' = loc[h].probe
    /\ cur_format' = loc[h].fi
    /\ cur_frame' = loc[h].ri
    /\ Finish(h, loc[h], "OK")

\* The commit of uvc_v4l2_set_format under the mutex.
SetFormatCommitBody(h) ==
    IF uvc_queue_allocated(queue)
    THEN /\ Finish(h, loc[h], "Busy")
         /\ UNCHANGED <<cur_format, cur_frame, ctrl>>
    ELSE /\ ctrl' = loc[h].probe
         /\ cur_format' = loc[h].fi
         /\ cur_frame' = loc[h].ri
         /\ Finish(h, loc[h], "OK")

SetFormatCommit(h) ==
    /\ pc[h] = "sf_commit"
    /\ mutex = 0
    /\ SetFormatCommitBody(h)
    /\ UNCHANGED <<hstate, active, users, mutex, queue, still_queue, stillVars>>

\* uvc_v4l2_get_format
VIDIOC_G_FMT(h, reqs) ==
    /\ pc[h] = "idle"
    /\ \E req \in reqs :
          LET l == NewLoc("G_FMT", req)
          IN  IF ~req.tok THEN Finish(h, l, "EINVAL")
              ELSE /\ mutex = 0
                   /\ IF cur_format = 0 \/ cur_frame = 0
                      THEN Finish(h, l, "EINVAL")
                      ELSE Finish(h, [l EXCEPT !.fi = cur_format, !.ri = cur_frame,
                                               !.probe = ctrl], "OK")
    /\ UNCHANGED <<hstate, active, users, mutex, streamVars>>

\* ------------------------------------------------------------ stream parameters
VIDIOC_S_PARM(h, reqs) ==
    /\ pc[h] = "idle"
    /\ \E req \in reqs :
          loc' = [loc EXCEPT ![h] = [NewLoc("S_PARM", req) EXCEPT !.snap = MainConfig]]
    /\ uvc_acquire_privileges(h, "S_PARM")
    /\ UNCHANGED <<hstate, users, mutex, streamVars>>

\* uvc_v4l2_set_streamparm as it would be without the uvc_queue_streaming
\* test.
SetParmLockUnchecked(h) ==
    /\ pc[h] = "sp_lock"
    /\ IF ~loc[h].req.tok
       THEN /\ Finish(h, loc[h], "EINVAL")
            /\ UNCHANGED mutex
       ELSE /\ mutex = 0
            /\ IF cur_frame = 0
               THEN /\ mutex' = -1
                    /\ Goto(h, "dead")
                    /\ loc' = [loc EXCEPT ![h] = NoLoc]
               ELSE /\ mutex' = h
                    /\ Goto(h, "sp_probe")
                    /\ loc' = [loc EXCEPT ![h].probe =
                                  [ctrl EXCEPT !.dwFrameInterval =
                                      uvc_try_frame_interval(
                                          FrameOf(cur_format, cur_frame),
                                          loc[h].req.n)]]
    /\ UNCHANGED <<hstate, active, users, streamVars>>

\* uvc_v4l2_set_streamparm up to the probe: type check, then under the mutex
\* the streaming check and the candidate.  With no current frame the
\* dereference of stream->cur_frame kills the task while it holds the mutex.
SetParmLock(h) ==
    /\ pc[h] = "sp_lock"
    /\ IF ~loc[h].req.tok
       THEN /\ Finish(h, loc[h], "EINVAL")
            /\ UNCHANGED mutex
       ELSE /\ mutex = 0
            /\ IF uvc_queue_streaming(queue)
               THEN /\ Finish(h, loc[h], "Busy")
                    /\ UNCHANGED mutex
               ELSE IF cur_frame = 0
               THEN /\ mutex' = -1
                    /\ Goto(h, "dead")
                    /\ loc' = [loc EXCEPT ![h] = NoLoc]
               ELSE /\ mutex' = h
                    /\ Goto(h, "sp_probe")
                    /\ loc' = [loc EXCEPT ![h].probe =
                                  [ctrl EXCEPT !.dwFrameInterval =
                                      uvc_try_frame_interval(
                                          FrameOf(cur_format, cur_frame),
                                          loc[h].req.n)]]
    /\ UNCHANGED <<hstate, active, users, streamVars>>

\* uvc_v4l2_set_streamparm as it would be if it copied the probe structure
\* into stream->ctrl before testing the probe's return value.
SetParmCommitAlways(h, r) ==
    /\ ctrl' = r.probe
    /\ Finish(h, [loc[h] EXCEPT !.probe = r.probe], IF r.ok THEN "OK" ELSE "EXT")

\* What uvc_v4l2_set_streamparm does with the probe's answer r.
SetParmCommit(h, r) ==
    IF ~r.ok
    THEN /\ Finish(h, loc[h], "EXT")
         /\ UNCHANGED ctrl
    ELSE /\ ctrl' = r.probe
         /\ Finish(h, [loc[h] EXCEPT !.probe = r.probe], "OK")

\* uvc_v4l2_set_streamparm: uvc_probe_video returns, still under the mutex.
SetParmProbe(h) ==
    /\ pc[h] = "sp_probe"
    /\ mutex' = 0
    /\ \E r \in uvc_probe_video(loc[h].probe) : SetParmCommit(h, r)
    /\ UNCHANGED <<hstate, active, users, cur_format, cur_frame, queue,
                   still_queue, stillVars>>

\* ------------------------------------------------------------ streaming
\* uvc_video_enable(stream, 1): the stream starts, or the device refuses.
\* uvc_video_enable(stream, 0): the stream stops.
uvc_video_enable(q, enable) ==
    IF enable = 1
    THEN {[ret |-> 0, q |-> [q EXCEPT !.streaming = TRUE]], [ret |-> -1, q |-> q]}
    ELSE {[ret |-> 0, q |-> [q EXCEPT !.streaming = FALSE]]}

Errno(ret) == IF ret < 0 THEN "EXT" ELSE "OK"

\* VIDIOC_STREAMON / VIDIOC_STREAMOFF as they would be without the
\* uvc_has_privileges test.
StreamOnOffUnchecked(h, l, enable) ==
    /\ enable = 1 => mutex = 0
    /\ \E r \in uvc_video_enable(queue, enable) :
          /\ queue' = r.q
          /\ Finish(h, l, Errno(r.ret))
    /\ UNCHANGED active

\* VIDIOC_STREAMON / VIDIOC_STREAMOFF after the type check: the privilege
\* test, then uvc_video_enable (for STREAMON under the mutex).
StreamOnOff(h, l, enable) ==
    IF ~uvc_has_privileges(h)
    THEN /\ Finish(h, l, "DeviceBusy")
         /\ UNCHANGED <<queue, active>>
    ELSE /\ enable = 1 => mutex = 0
         /\ \E r \in uvc_video_enable(queue, enable) :
               /\ queue' = r.q
               /\ Finish(h, l, Errno(r.ret))
         /\ UNCHANGED active

VIDIOC_STREAMON(h, reqs) ==
    /\ pc[h] = "idle"
    /\ \E req \in reqs :
          LET l == NewLoc("STREAMON", req)
          IN  IF ~req.tok
              THEN /\ Finish(h, l, "EINVAL")
                   /\ UNCHANGED <<queue, active>>
              ELSE StreamOnOff(h, l, 1)
    /\ UNCHANGED <<hstate, users, mutex, cur_format, cur_frame, ctrl,
                   still_queue, stillVars>>

VIDIOC_STREAMOFF(h, reqs) ==
    /\ pc[h] = "idle"
    /\ \E req \in reqs :
          LET l == NewLoc("STREAMOFF", req)
          IN  IF ~req.tok
              THEN /\ Finish(h, l, "EINVAL")
                   /\ UNCHANGED <<queue, active>>
              ELSE StreamOnOff(h, l, 0)
    /\ UNCHANGED <<hstate, users, mutex, cur_format, cur_frame, ctrl,
                   still_queue, stillVars>>

\* ------------------------------------------------------------ buffer queue
\* uvc_query_buffer: the buffer exists or not; the queue is only read.
uvc_query_buffer(q) == IF q.count > 0 THEN {0, -1} ELSE {-1}

\* uvc_queue_buffer: one more buffer is queued, or the call fails.
uvc_queue_buffer(q) ==
    {[ret |-> -1, q |-> q]} \cup
    (IF q.queued < q.count
     THEN {[ret |-> 0, q |-> [q EXCEPT !.queued = q.queued + 1]]}
     ELSE {})

\* uvc_dequeue_buffer: a queued buffer is handed back, or the call fails
\* (nothing queued and non-blocking, or an error).  A blocking call with
\* nothing queued does not return.
uvc_dequeue_buffer(q, nonblock) ==
    (IF q.queued > 0
     THEN {[ret |-> 0, q |-> [q EXCEPT !.queued = q.queued - 1]]}
     ELSE {}) \cup
    (IF q.queued = 0 /\ ~nonblock THEN {} ELSE {[ret |-> -1, q |-> q]})

\* VIDIOC_QUERYBUF on the main queue (no still flag): type check, privilege
\* test, uvc_query_buffer.
QueryBufMain(h, l) ==
    IF ~l.req.tok THEN Finish(h, l, "EINVAL")
    ELSE IF ~uvc_has_privileges(h) THEN Finish(h, l, "DeviceBusy")
    ELSE \E r \in uvc_query_buffer(queue) : Finish(h, l, Errno(r))

\* VIDIOC_QUERYBUF with the still flag.
QueryBufStill(h, l) ==
    \E r \in uvc_query_buffer(still_queue) : Finish(h, l, Errno(r))

VIDIOC_QUERYBUF(h, reqs) ==
    /\ pc[h] = "idle"
    /\ \E req \in reqs :
          IF req.still
          THEN QueryBufStill(h, NewLoc("QUERYBUF", req))
          ELSE QueryBufMain(h, NewLoc("QUERYBUF", req))
    /\ UNCHANGED <<hstate, active, users, mutex, streamVars>>

\* VIDIOC_QBUF on the main queue as it would be without the
\* uvc_has_privileges test.
QBufMainUnchecked(h, l) ==
    /\ \E r \in uvc_queue_buffer(queue) :
          /\ queue' = r.q
          /\ Finish(h, l, Errno(r.ret))
    /\ UNCHANGED <<active, hstate>>

\* VIDIOC_QBUF on the main queue: privilege test, uvc_queue_buffer.
QBufMain(h, l) ==
    IF ~uvc_has_privileges(h)
    THEN /\ Finish(h, l, "DeviceBusy")
         /\ UNCHANGED <<queue, active, hstate>>
    ELSE /\ \E r \in uvc_queue_buffer(queue) :
               /\ queue' = r.q
               /\ Finish(h, l, Errno(r.ret))
         /\ UNCHANGED <<active, hstate>>

\* VIDIOC_QBUF with the still flag; a failure is returned as -ENOMEM.
QBufStill(h, l) ==
    \E r \in uvc_queue_buffer(still_queue) :
        /\ still_queue' = r.q
        /\ Finish(h, l, IF r.ret < 0 THEN "ENOMEM" ELSE "OK")

VIDIOC_QBUF(h, reqs) ==
    /\ pc[h] = "idle"
    /\ \E req \in reqs :
          IF req.still
          THEN /\ QBufStill(h, NewLoc("QBUF", req))
               /\ UNCHANGED <<queue, active, hstate>>
          ELSE /\ QBufMain(h, NewLoc("QBUF", req))
               /\ UNCHANGED still_queue
    /\ UNCHANGED <<users, mutex, cur_format, cur_frame, ctrl, stillVars>>

\* VIDIOC_DQBUF on the main queue: privilege test, uvc_dequeue_buffer.
DQBufMain(h, l) ==
    IF ~uvc_has_privileges(h)
    THEN /\ Finish(h, l, "DeviceBusy")
         /\ UNCHANGED <<queue, active, hstate>>
    ELSE /\ \E r \in uvc_dequeue_buffer(queue, l.req.n = 1) :
               /\ queue' = r.q
               /\ Finish(h, l, Errno(r.ret))
         /\ UNCHANGED <<active, hstate>>

\* uvc_trigger_still as it would be without the test of still_img_configed.
uvc_trigger_still_unchecked == {0, -1}

\* uvc_trigger_still: the device is asked for one still frame, or the
\* request fails; without a configured still format it fails.
uvc_trigger_still == IF still_img_configed THEN {0, -1} ELSE {-1}

\* VIDIOC_DQBUF with the still flag as it would be if it set
\* still_waiting_frame before it tested the trigger's return value.
DQBufStillTriggerFlagFirst(h, l) ==
    \E t \in uvc_trigger_still :
        /\ still_waiting_frame' = TRUE
        /\ IF t < 0
           THEN Finish(h, [l EXCEPT !.triggers = 1], "EXT")
           ELSE /\ loc' = [loc EXCEPT ![h] = [l EXCEPT !.triggers = 1]]
                /\ Goto(h, "dq_still")

\* VIDIOC_DQBUF with the still flag: uvc_trigger_still (counted in the
\* request's triggers), then stream->still_waiting_frame = 1; the dequeue is
\* a later step.
DQBufStillTrigger(h, l) ==
    \E t \in uvc_trigger_still :
        IF t < 0
        THEN /\ Finish(h, [l EXCEPT !.triggers = 1], "EXT")
             /\ UNCHANGED still_waiting_frame
        ELSE /\ still_waiting_frame' = TRUE
             /\ loc' = [loc EXCEPT ![h] = [l EXCEPT !.triggers = 1]]
             /\ Goto(h, "dq_still")

VIDIOC_DQBUF(h, reqs) ==
    /\ pc[h] = "idle"
    /\ \E req \in reqs :
          IF req.still
          THEN /\ DQBufStillTrigger(h, NewLoc("DQBUF", req))
               /\ UNCHANGED <<queue, active, hstate>>
          ELSE /\ DQBufMain(h, NewLoc("DQBUF", req))
               /\ UNCHANGED still_waiting_frame
    /\ UNCHANGED <<users, mutex, cur_format, cur_frame, ctrl,
                   still_queue, still_ctrl, still_format, still_frame,
                   still_img_configed, still_decoding>>

\* VIDIOC_DQBUF with the still flag: uvc_dequeue_buffer(&stream->still_queue).
DQBufStill(h) ==
    /\ pc[h] = "dq_still"
    /\ \E r \in uvc_dequeue_buffer(still_queue, loc[h].req.n = 1) :
          /\ still_queue' = r.q
          /\ Finish(h, loc[h], Errno(r.ret))
    /\ UNCHANGED <<hstate, active, users, mutex, cur_format, cur_frame, ctrl,
                   queue, stillVars>>

\* ------------------------------------------------------------ still format
\* uvc_v4l2_set_format_still: under the mutex, a configured still queue is
\* freed and still_img_configed cleared.
SetFormatStillFree(h) ==
    /\ pc[h] = "ss_free"
    /\ mutex = 0
    /\ IF still_img_configed
       THEN \E r \in uvc_free_buffers(still_queue) :
               /\ still_queue' = r.q
               /\ IF r.ret < 0
                  THEN /\ Finish(h, loc[h], "EXT")
                       /\ UNCHANGED still_img_configed
                  ELSE /\ still_img_configed' = FALSE
                       /\ Goto(h, "ss_try")
                       /\ UNCHANGED loc
       ELSE /\ Goto(h, "ss_try")
            /\ UNCHANGED <<loc, still_queue, still_img_configed>>
    /\ UNCHANGED <<hstate, active, users, mutex, cur_format, cur_frame, ctrl,
                   queue, still_ctrl, still_format, still_frame, still_decoding,
                   still_waiting_frame>>

\* uvc_v4l2_try_format_still: format lookup, exact still size, still probe.
\* The out-parameters uvc_format and uvc_frame are never written.
SetFormatStillTry(h) ==
    /\ pc[h] = "ss_try"
    /\ LET req == loc[h].req
           fi == FindFormat(req.fcc)
           idx == IF fi = 0 THEN -1
                  ELSE uvc_v4l2_get_still_idx(StreamFormats[fi], req.w, req.h)
       IN  IF fi = 0 \/ idx < 0
           THEN Finish(h, loc[h], "EINVAL")
           ELSE \E r \in uvc_probe_still([ZeroCtrl EXCEPT
                                             !.bFormatIndex = StreamFormats[fi].index,
                                             !.bFrameIndex = idx]) :
                   IF ~r.ok THEN Finish(h, loc[h], "EXT")
                   ELSE /\ loc' = [loc EXCEPT ![h].probe = r.probe]
                        /\ Goto(h, "ss_commit")
    /\ UNCHANGED <<hstate, active, users, mutex, streamVars>>

\* uvc_v4l2_set_format_still: the commit under the mutex.  format and frame
\* are the function's own NULL-initialised locals.
SetFormatStillCommit(h) ==
    /\ pc[h] = "ss_commit"
    /\ mutex = 0
    /\ still_ctrl' = loc[h].probe
    /\ still_format' = 0
    /\ still_frame' = 0
    /\ still_img_configed' = TRUE
    /\ Finish(h, loc[h], "OK")
    /\ UNCHANGED <<hstate, active, users, mutex, cur_format, cur_frame, ctrl,
                   queue, still_queue, still_decoding, still_waiting_frame>>

\* ------------------------------------------------------------ still decoder
\* The still decoder of the video path sets stream->still_decoding while it
\* decodes a triggered still frame and clears it, with still_waiting_frame,
\* when the frame is done.
StillDecode ==
    /\ IF still_decoding
       THEN /\ still_decoding' = FALSE
            /\ still_waiting_frame' = FALSE
       ELSE /\ still_waiting_frame
            /\ still_decoding' = TRUE
            /\ UNCHANGED still_waiting_frame
    /\ UNCHANGED <<pc, hstate, loc, active, users, mutex, cur_format, cur_frame,
                   ctrl, queue, still_queue, still_ctrl, still_format, still_frame,
                   still_img_configed, refused, solo, nego, disconnected>>

\* ------------------------------------------------------------ specifications
\* Open, release, the return to the caller and the steps of
\* uvc_acquire_privileges, common to every specification.
SessionNext(h) ==
    \/ uvc_v4l2_open(h)
    \/ uvc_v4l2_release(h)
    \/ ReleaseFreeMain(h)
    \/ ReleaseFreeStill(h)
    \/ ReleaseDismiss(h)
    \/ ReleaseFinal(h)
    \/ Return(h)
    \/ AcquireWon(h)
    \/ AcquireLost(h)

\* The main pipeline: the requests on the main format, parameters, queue
\* and stream, issued by NumHandles handles.
MainNext(h) ==
    \/ SessionNext(h)
    \/ VIDIOC_S_INPUT(h)
    \/ SInputBody(h)
    \/ VIDIOC_REQBUFS(h, MainBufReqs)
    \/ ReqBufsAlloc(h)
    \/ ReqBufsDismiss(h)
    \/ ReqBufsPassive(h)
    \/ VIDIOC_S_FMT(h, MainFmtReqs)
    \/ SetFormatTry(h)
    \/ TryFormatProbe(h)
    \/ SetFormatCommit(h)
    \/ VIDIOC_S_PARM(h, ParmReqs)
    \/ SetParmLock(h)
    \/ SetParmProbe(h)
    \/ VIDIOC_STREAMON(h, TypeReqs)
    \/ VIDIOC_STREAMOFF(h, TypeReqs)
    \/ VIDIOC_QUERYBUF(h, MainQReqs \cup {BadTypeFmt})
    \/ VIDIOC_QBUF(h, MainQReqs)
    \/ VIDIOC_DQBUF(h, MainQReqs)

Next == \E h \in Handles : MainNext(h)

Spec == Init /\ [][Next]_vars

\* The privilege arbitration with one more handle: every request that
\* calls uvc_acquire_privileges or uvc_dismiss_privileges.  VIDIOC_S_FMT and
\* VIDIOC_S_PARM are issued with a buffer type their bodies reject, so that
\* the main configuration stays as it is.
ArbNext(h) ==
    \/ SessionNext(h)
    \/ VIDIOC_S_INPUT(h)
    \/ SInputBody(h)
    \/ VIDIOC_REQBUFS(h, MainBufReqs)
    \/ ReqBufsAlloc(h)
    \/ ReqBufsDismiss(h)
    \/ ReqBufsPassive(h)
    \/ VIDIOC_S_FMT(h, {BadTypeFmt})
    \/ SetFormatTry(h)
    \/ VIDIOC_S_PARM(h, {BadTypeParm})
    \/ SetParmLock(h)

NextArb == \E h \in ArbHandles : ArbNext(h)

SpecArb == Init /\ [][NextArb]_vars

\* The still pipeline: the still requests and the still decoder, beside
\* the requests that make a handle Active and Passive again.
StillNext(h) ==
    \/ SessionNext(h)
    \/ VIDIOC_S_INPUT(h)
    \/ SInputBody(h)
    \/ VIDIOC_S_FMT(h, StillFmtReqs)
    \/ SetFormatStillFree(h)
    \/ SetFormatStillTry(h)
    \/ SetFormatStillCommit(h)
    \/ VIDIOC_REQBUFS(h, StillBufReqs)
    \/ VIDIOC_QUERYBUF(h, StillQReqs)
    \/ VIDIOC_QBUF(h, StillQReqs)
    \/ VIDIOC_DQBUF(h, StillQReqs)
    \/ DQBufStill(h)

NextStill ==
    \/ \E h \in Handles : StillNext(h)
    \/ StillDecode

SpecStill == Init /\ [][NextStill]_vars

\* Format negotiation: the dry run (every format request) and the read-back
\* beside the committing requests (one format, one interval), the buffer
\* requests and the stream start and stop.
FormatNext(h) ==
    \/ SessionNext(h)
    \/ VIDIOC_TRY_FMT(h, MainFmtReqs)
    \/ VIDIOC_S_FMT(h, {Req(TRUE, FALSE, 1, 4, 3, 0)})
    \/ SetFormatTry(h)
    \/ TryFormatProbe(h)
    \/ SetFormatCommit(h)
    \/ VIDIOC_G_FMT(h, TypeReqs)
    \/ VIDIOC_S_PARM(h, ParmReqs)
    \/ SetParmLock(h)
    \/ SetParmProbe(h)
    \/ VIDIOC_REQBUFS(h, {Req(TRUE, FALSE, 0, 0, 0, n) : n \in 0..MaxBufs})
    \/ ReqBufsAlloc(h)
    \/ ReqBufsDismiss(h)
    \/ ReqBufsPassive(h)
    \/ VIDIOC_STREAMON(h, TypeReqs)
    \/ VIDIOC_STREAMOFF(h, TypeReqs)

NextFormat == \E h \in Handles : FormatNext(h)

SpecFormat == Init /\ [][NextFormat]_vars

\* ------------------------------------------------------------ lock discipline
\* Requests that hold stream->mutex across a device probe (the dry run of
\* a main format) beside the still requests and the still decoder that
\* touch the still flags.
LockNext(h) ==
    \/ SessionNext(h)
    \/ VIDIOC_S_INPUT(h)
    \/ SInputBody(h)
    \/ VIDIOC_TRY_FMT(h, {Req(TRUE, FALSE, 1, 2, 2, 0)})
    \/ TryFormatProbe(h)
    \/ VIDIOC_S_FMT(h, {Req(TRUE, TRUE, 1, 4, 3, 0)})
    \/ SetFormatStillFree(h)
    \/ SetFormatStillTry(h)
    \/ SetFormatStillCommit(h)
    \/ VIDIOC_DQBUF(h, {Req(TRUE, TRUE, 0, 0, 0, 1)})
    \/ DQBufStill(h)

NextLock ==
    \/ \E h \in Handles : LockNext(h)
    \/ StillDecode

SpecLock == Init /\ [][NextLock]_vars

\* ------------------------------------------------------------ disconnection
\* The USB disconnect handler marks the device UVC_DEV_DISCONNECTED.
uvc_disconnect ==
    /\ ~disconnected
    /\ disconnected' = TRUE
    /\ UNCHANGED <<pc, hstate, loc, active, users, mutex, cur_format, cur_frame,
                   ctrl, queue, still_queue, still_ctrl, still_format,
                   still_frame, still_img_configed, still_decoding,
                   still_waiting_frame, refused, solo, nego>>

\* The requests of open handles and further opens around a disconnection:
\* the format requests, the buffer requests and the stream start and stop.
GoneNext(h) ==
    \/ SessionNext(h)
    \/ VIDIOC_TRY_FMT(h, {Req(TRUE, FALSE, 1, 2, 2, 0)})
    \/ VIDIOC_S_FMT(h, {Req(TRUE, FALSE, 1, 4, 3, 0)})
    \/ SetFormatTry(h)
    \/ TryFormatProbe(h)
    \/ SetFormatCommit(h)
    \/ VIDIOC_G_FMT(h, TypeReqs)
    \/ VIDIOC_REQBUFS(h, {Req(TRUE, FALSE, 0, 0, 0, n) : n \in 0..MaxBufs})
    \/ ReqBufsAlloc(h)
    \/ ReqBufsDismiss(h)
    \/ ReqBufsPassive(h)
    \/ VIDIOC_STREAMON(h, TypeReqs)
    \/ VIDIOC_STREAMOFF(h, TypeReqs)

NextGone ==
    \/ \E h \in Handles : GoneNext(h)
    \/ uvc_disconnect

SpecGone == Init /\ [][NextGone]_vars

\* ------------------------------------------------------------ negotiation functions
\* The frame-size selection of uvc_v4l2_try_format and uvc_try_frame_interval
\* on their own, applied once to arguments drawn from bounded sets: frame
\* lists with small and with the largest __u16 sizes, requests below and
\* above 2^16, ascending discrete interval lists, stepwise ranges, and every
\* 32-bit interval request.
SeqsUpTo(S, n) == UNION {[1..k -> S] : k \in 0..n}

FrameDims == {1, 2, U16 - 1}

RequestDims == {1, 2, 3, U16 - 1, U16 + 1, U16 + 2}

FrameLists == SeqsUpTo([wWidth : FrameDims, wHeight : FrameDims], MaxFrames)

IntervalVals == {0, 3, 5, 33, 50, U32 - 1}

Ascending(s) == \A i \in 1..(Len(s) - 1) : s[i] <= s[i + 1]

DiscreteFrames ==
    {[bFrameIntervalType |-> Len(s), dwFrameInterval |-> s] :
        s \in {t \in SeqsUpTo(IntervalVals, MaxIntervals) : Len(t) > 0 /\ Ascending(t)}}

StepMins == {0, 2, 100}
StepMaxs == {6, 200, U32 - 1}
Steps == {1, 2, 7, 128}

StepwiseFrames ==
    {f \in {[bFrameIntervalType |-> 0, dwFrameInterval |-> <<m, M, s>>] :
                m \in StepMins, M \in StepMaxs, s \in Steps} :
        f.dwFrameInterval[1] <= f.dwFrameInterval[2]}

InitNego ==
    /\ StreamInit
    /\ \/ \E fl \in FrameLists, rw \in RequestDims, rh \in RequestDims :
              nego = Nego("size", fl, rw, rh, Frame1, 0)
       \/ \E f \in DiscreteFrames \cup StepwiseFrames, i \in 0..(U32 - 1) :
              nego = Nego("interval", << >>, 0, 0, f, i)

\* The frame-size loop of uvc_v4l2_try_format runs on the recorded arguments.
SelectFrameSize ==
    /\ nego.fn = "size"
    /\ nego.out = NotCalled
    /\ nego' = [nego EXCEPT !.out = SelectFrame([frame |-> nego.frames],
                                                nego.rw, nego.rh)]
    /\ UNCHANGED <<pc, hstate, loc, active, users, mutex, cur_format, cur_frame,
                   ctrl, queue, still_queue, still_ctrl, still_format,
                   still_frame, still_img_configed, still_decoding,
                   still_waiting_frame, refused, solo, disconnected>>

\* uvc_try_frame_interval runs on the recorded arguments.
SelectFrameInterval ==
    /\ nego.fn = "interval"
    /\ nego.out = NotCalled
    /\ nego' = [nego EXCEPT !.out = uvc_try_frame_interval(nego.frame,
                                                           nego.interval)]
    /\ UNCHANGED <<pc, hstate, loc, active, users, mutex, cur_format, cur_frame,
                   ctrl, queue, still_queue, still_ctrl, still_format,
                   still_frame, still_img_configed, still_decoding,
                   still_waiting_frame, refused, solo, disconnected>>

NextNego ==
    \/ SelectFrameSize
    \/ SelectFrameInterval

SpecNego == InitNego /\ [][NextNego]_vars

\* ------------------------------------------------------------ privilege accounting
\* The handles whose handle->state is ACTIVE.
ActiveHandles == {h \in ArbHandles : hstate[h] = UVC_HANDLE_ACTIVE}

\* The handles that own one unit of stream->active as the holder of the
\* privileges: from the atomic_inc_return that returned 1 to the atomic_dec
\* of uvc_dismiss_privileges.
Holders ==
    {h \in ArbHandles :
        \/ pc[h] = "acq_won"
        \/ /\ hstate[h] = UVC_HANDLE_ACTIVE
           /\ pc[h] \notin {"rb_passive", "rel_end"}}

\* The handles between the failed atomic_inc_return and the atomic_dec that
\* rolls it back.
Rollbacks == {h \in ArbHandles : pc[h] = "acq_lost"}

\* Handle h is Active or has just won the increment and is about to store
\* UVC_HANDLE_ACTIVE.
ActiveOrWinning(h) == hstate[h] = UVC_HANDLE_ACTIVE \/ pc[h] = "acq_won"

\* Handle h issues a request that goes through uvc_acquire_privileges and
\* loses the increment.
LosesIncrement(h) == pc[h] = "idle" /\ pc'[h] = "acq_lost"

\* ------------------------------------------------------------ C1
\* C1: under every interleaving of open, close, acquire and dismiss by any
\* number of handles, at most one handle of the stream is in state Active.
C1_AtMostOneActive == Cardinality(ActiveHandles) <= 1

C3_RefusedOnlyByActive ==
    [][\A h \in ArbHandles :
          LosesIncrement(h) =>
              \E g \in ArbHandles \ {h} : ActiveOrWinning(g)]_vars

\* ------------------------------------------------------------ C4
\* C4: closing a handle leaves activeHandleCount without that handle's
\* contribution, and once the Active handle has been closed the next
\* acquisition attempt of a handle refused before succeeds (unless another
\* handle has become Active in between).
C4_CloseHandsOver ==
    [][/\ \A h \in ArbHandles :
             (pc[h] # "closed" /\ pc'[h] = "closed") =>
                 active' = Cardinality(Holders' \ {h}) + Cardinality(Rollbacks' \ {h})
       /\ (refused = "released" /\ LosesIncrement(Observed)) =>
             \E g \in ArbHandles \ {Observed} : ActiveOrWinning(g)]_vars

\* ------------------------------------------------------------ C5
\* Handle h issues request op (one of ops) on the main pipeline.
Issues(h, ops) ==
    /\ pc[h] = "idle"
    /\ pc'[h] \notin {"idle", "closed"}
    /\ loc'[h].op \in ops
    /\ ~loc'[h].req.still

\* The request of handle h returns in this step.
Returns(h) == pc[h] # "done" /\ pc'[h] = "done"

\* C5: with A Active, a main-pipeline SetFormat of a Passive B fails
\* DeviceBusy without a probe and without changing mainConfig or B's
\* privilege state; issued after A is closed (every other handle closed),
\* a SetFormat of B whose format is supported and whose probe is accepted
\* succeeds and commits mainConfig.
C5_SetFormatHandover ==
    [][/\ \A a, b \in Handles :
             ( /\ a # b
               /\ hstate[a] = UVC_HANDLE_ACTIVE
               /\ hstate[b] = UVC_HANDLE_PASSIVE
               /\ Issues(b, {"S_FMT"}) ) =>
                   /\ pc'[b] = "acq_lost"
                   /\ MainConfig' = MainConfig
                   /\ hstate'[b] = UVC_HANDLE_PASSIVE
       /\ \A b \in Handles :
             ( /\ Returns(b)
               /\ loc'[b].op = "S_FMT"
               /\ ~loc'[b].req.still
               /\ solo[b]
               /\ loc'[b].ret \notin {"EINVAL", "EXT"} ) =>
                   /\ loc'[b].ret = "OK"
                   /\ MainConfig' = <<loc'[b].fi, loc'[b].ri, loc'[b].probe>>]_vars

\* ------------------------------------------------------------ C6
\* C6 as stated: start and stop streaming on a Passive handle, while no
\* handle is Active, acquire the privileges and proceed instead of failing
\* DeviceBusy.
C6_StreamingAcquires ==
    [][\A h \in Handles :
          ( /\ Issues(h, {"STREAMON", "STREAMOFF"})
            /\ loc'[h].req.tok
            /\ hstate[h] = UVC_HANDLE_PASSIVE
            /\ active = 0
            /\ ActiveHandles = {} ) =>
                ~(pc'[h] = "done" /\ loc'[h].ret = "DeviceBusy")]_vars

\* C6, amended: start and stop streaming (with the stream's buffer type) on
\* a Passive handle fail DeviceBusy at once, without an acquisition attempt:
\* the handle stays Passive, activeHandleCount and the main queue are
\* unchanged, also when no handle is Active.
C6_StreamingNeedsActive ==
    [][\A h \in Handles :
          ( /\ Issues(h, {"STREAMON", "STREAMOFF"})
            /\ loc'[h].req.tok
            /\ hstate[h] = UVC_HANDLE_PASSIVE ) =>
                /\ pc'[h] = "done"
                /\ loc'[h].ret = "DeviceBusy"
                /\ hstate' = hstate
                /\ active' = active
                /\ queue' = queue]_vars

\* A Passive handle was refused the start of the stream while nobody held
\* the privileges.
C6_Witness ==
    \E h \in Handles :
        /\ pc[h] = "done"
        /\ loc[h].op = "STREAMON"
        /\ loc[h].req.tok
        /\ loc[h].ret = "DeviceBusy"
        /\ hstate[h] = UVC_HANDLE_PASSIVE
        /\ active = 0
        /\ ActiveHandles = {}

\* ------------------------------------------------------------ C7
\* What a Passive handle's main-queue request leaves alone.
PassiveQueueOpUntouched(h) ==
    /\ pc'[h] = "done"
    /\ hstate' = hstate
    /\ active' = active
    /\ queue' = queue

\* C7 as stated: enqueue, dequeue and query on the main queue by a Passive
\* handle always fail DeviceBusy, are not delegated to the queue and do not
\* acquire the privileges.
C7_PassiveQueueOpsBusy ==
    [][\A h \in Handles :
          (Issues(h, {"QUERYBUF", "QBUF", "DQBUF"}) /\ hstate[h] = UVC_HANDLE_PASSIVE) =>
              /\ PassiveQueueOpUntouched(h)
              /\ loc'[h].ret = "DeviceBusy"]_vars

\* C7, amended: enqueue and dequeue on the main queue by a Passive handle
\* always fail DeviceBusy; query fails InvalidArgument when the buffer type
\* is not the stream's and DeviceBusy otherwise; none is delegated to the
\* queue, none acquires the privileges.
C7_PassiveQueueOpsRefused ==
    [][\A h \in Handles :
          (Issues(h, {"QUERYBUF", "QBUF", "DQBUF"}) /\ hstate[h] = UVC_HANDLE_PASSIVE) =>
              /\ PassiveQueueOpUntouched(h)
              /\ loc'[h].ret = IF loc'[h].op = "QUERYBUF" /\ ~loc'[h].req.tok
                               THEN "EINVAL"
                               ELSE "DeviceBusy"]_vars

\* A Passive handle's enqueue was refused while the main queue had buffers
\* and nobody held the privileges.
C7_Witness ==
    \E h \in Handles :
        /\ pc[h] = "done"
        /\ loc[h].op = "QBUF"
        /\ ~loc[h].req.still
        /\ loc[h].ret = "DeviceBusy"
        /\ hstate[h] = UVC_HANDLE_PASSIVE
        /\ active = 0
        /\ uvc_queue_allocated(queue)

\* ------------------------------------------------------------ C8
\* The main-queue VIDIOC_REQBUFS of handle h has returned 0 buffers.
FreedBuffers(h) ==
    /\ pc[h] = "done"
    /\ loc[h].op = "REQBUFS"
    /\ ~loc[h].req.still
    /\ loc[h].ret = "OK"
    /\ loc[h].n = 0

\* C8: after a main-queue buffer request resulting in zero buffers has
\* returned successfully, the handle is Passive and activeHandleCount does
\* not count it (so another handle can acquire without a close).
C8_ZeroBuffersDismiss ==
    \A h \in ArbHandles :
        FreedBuffers(h) =>
            /\ hstate[h] = UVC_HANDLE_PASSIVE
            /\ h \notin Holders
            /\ active = Cardinality(Holders \ {h}) + Cardinality(Rollbacks \ {h})

\* The handle that freed its buffers is still open, its request not yet
\* returned to the caller, and another handle is Active.
C8_Witness ==
    \E h \in ArbHandles, g \in ArbHandles :
        /\ g # h
        /\ FreedBuffers(h)
        /\ hstate[g] = UVC_HANDLE_ACTIVE
        /\ g \in Holders
        /\ active = 1

\* ------------------------------------------------------------ C9
\* Handle h takes a step of a request of the still pipeline.
StillStep(h) == pc'[h] # pc[h] /\ loc'[h].req.still

\* C9: the still-pipeline requests (still format, still buffer request,
\* enqueue, query, dequeue) of any handle are never refused DeviceBusy and
\* leave every handle's privilege state and activeHandleCount unchanged.
C9_StillNeedsNoPrivilege ==
    [][\A h \in Handles :
          StillStep(h) =>
              /\ hstate' = hstate
              /\ active' = active
              /\ ~(pc'[h] = "done" /\ loc'[h].ret = "DeviceBusy")]_vars

\* A Passive handle has allocated still buffers while another handle is
\* Active.
C9_Witness ==
    \E h \in Handles, g \in Handles :
        /\ g # h
        /\ hstate[g] = UVC_HANDLE_ACTIVE
        /\ hstate[h] = UVC_HANDLE_PASSIVE
        /\ pc[h] = "done"
        /\ loc[h].op = "REQBUFS"
        /\ loc[h].req.still
        /\ loc[h].ret = "OK"
        /\ loc[h].n > 0

\* ------------------------------------------------------------ C10
\* C10: when the device probe fails during a main-pipeline SetFormat or
\* SetStreamParams, the committed main configuration after the call equals
\* the one before the call (loc[h].snap, taken when the call was issued).
C10_ProbeFailureKeepsConfig ==
    \A h \in Handles :
        ( /\ pc[h] = "done"
          /\ loc[h].op \in {"S_FMT", "S_PARM"}
          /\ ~loc[h].req.still
          /\ loc[h].ret = "EXT" ) =>
              MainConfig = loc[h].snap

\* A stream parameter request whose probe was rejected, with a committed
\* format whose interval differs from the rejected candidate's.
C10_Witness ==
    \E h \in Handles :
        /\ pc[h] = "done"
        /\ loc[h].op = "S_PARM"
        /\ loc[h].ret = "EXT"
        /\ cur_format # 0
        /\ loc[h].probe.dwFrameInterval # ctrl.dwFrameInterval

\* ------------------------------------------------------------ C11
\* The still-pipeline state a still format request can touch: the committed
\* still configuration, the configured flag and the allocated buffers.
StillState ==
    <<still_ctrl, still_format, still_frame, still_img_configed,
      still_queue.count>>

\* The negotiation of uvc_v4l2_try_format_still cannot succeed for req: the
\* format is unknown or no still frame has exactly the requested size.
StillNegotiationFails(req) ==
    \/ FindFormat(req.fcc) = 0
    \/ uvc_v4l2_get_still_idx(StreamFormats[FindFormat(req.fcc)], req.w, req.h) < 0

\* C11: a still format request whose negotiation fails (here: a request
\* that cannot negotiate, its format unknown or its size not a still size)
\* leaves the still configuration, the configured flag and the still
\* queue's buffers as they were: no step of that call changes them.
C11_FailedStillNegotiationKeepsState ==
    [][\A h \in Handles :
          ( \/ /\ pc[h] = "ss_free"
               /\ pc'[h] = "ss_try"
               /\ StillNegotiationFails(loc[h].req)
            \/ /\ pc[h] = "ss_try"
               /\ pc'[h] = "done"
               /\ loc'[h].ret \in {"EINVAL", "EXT"} ) =>
              StillState' = StillState]_vars

\* ------------------------------------------------------------ C12
\* Handle h takes a step of uvc_v4l2_set_format (the privileges acquired).
SetFormatStep(h) ==
    /\ pc[h] \in {"sf_try", "try_probe", "sf_commit"}
    /\ loc[h].op = "S_FMT"
    /\ pc'[h] # pc[h]

\* C12 as claimed: a main SetFormat that returns while the main queue has
\* allocated buffers returns Busy, whether its negotiation succeeded or not,
\* and leaves mainConfig unchanged.
C12_AllocatedSetFormatBusy ==
    [][\A h \in Handles :
          ( /\ SetFormatStep(h)
            /\ uvc_queue_allocated(queue)
            /\ pc'[h] = "done" ) =>
              /\ loc'[h].ret = "Busy"
              /\ MainConfig' = MainConfig]_vars

\* C12 as the code has it: while the main queue has allocated buffers no
\* step of a main SetFormat changes mainConfig and the call fails; Busy is
\* the result when the negotiation succeeded (the test comes after it), the
\* negotiation's own error otherwise.
C12_AllocatedSetFormatFails ==
    [][\A h \in Handles :
          ( SetFormatStep(h) /\ uvc_queue_allocated(queue) ) =>
              /\ MainConfig' = MainConfig
              /\ pc'[h] = "done" => loc'[h].ret \in {"Busy", "EINVAL", "EXT"}
              /\ pc[h] = "sf_commit" => loc'[h].ret = "Busy"
              /\ loc'[h].ret = "Busy" => pc[h] = "sf_commit"]_vars

\* A main SetFormat whose candidate differs from the committed parameters
\* has been refused Busy with buffers allocated.
C12_Witness ==
    \E h \in Handles :
        /\ pc[h] = "done"
        /\ loc[h].op = "S_FMT"
        /\ ~loc[h].req.still
        /\ loc[h].ret = "Busy"
        /\ uvc_queue_allocated(queue)
        /\ loc[h].probe # ctrl

\* ------------------------------------------------------------ C13
\* Handle h takes a step of VIDIOC_TRY_FMT: it issues the request or its
\* probe returns.
TryFormatStep(h) ==
    /\ pc'[h] # pc[h]
    /\ loc'[h].op = "TRY_FMT"

\* C13: VIDIOC_TRY_FMT is a dry run: whoever calls it and whatever the
\* other handles hold, whether it succeeds or fails, no step of it changes
\* mainConfig, the still configuration, any handle's privilege state or
\* the count of active handles.
C13_TryFormatDryRun ==
    [][\A h \in Handles :
          TryFormatStep(h) =>
              /\ MainConfig' = MainConfig
              /\ StillState' = StillState
              /\ hstate' = hstate
              /\ active' = active]_vars

\* A Passive handle's dry run has succeeded with a candidate that differs
\* from the committed parameters while another handle is Active and
\* streaming.
C13_Witness ==
    \E h \in Handles, g \in Handles :
        /\ g # h
        /\ pc[h] = "done"
        /\ loc[h].op = "TRY_FMT"
        /\ loc[h].ret = "OK"
        /\ hstate[h] = UVC_HANDLE_PASSIVE
        /\ hstate[g] = UVC_HANDLE_ACTIVE
        /\ uvc_queue_allocated(queue)
        /\ uvc_queue_streaming(queue)
        /\ loc[h].probe # ctrl

\* ------------------------------------------------------------ C14
\* Handle h is inside uvc_probe_video: uvc_v4l2_try_format (for VIDIOC_TRY_FMT
\* or VIDIOC_S_FMT) or uvc_v4l2_set_streamparm has issued the probe and the
\* probe has not returned.
InDeviceProbe(h) == pc[h] \in {"try_probe", "sp_probe"}

\* C14: the stream lock is never held while a device probe is in progress:
\* a handle inside the probe of TryFormat, SetFormat or SetStreamParams does
\* not hold stream->mutex, so a lock-protected request of another handle
\* can run meanwhile.
C14_ProbeOutsideLock ==
    \A h \in Handles : InDeviceProbe(h) => mutex # h

\* ------------------------------------------------------------ C15
\* Handle h, its privileges acquired, takes the first step of
\* uvc_v4l2_set_streamparm while the main queue is streaming.
SetParmWhileStreaming(h) ==
    /\ pc[h] = "sp_lock"
    /\ pc'[h] # pc[h]
    /\ queue.streaming

\* C15 as claimed: SetStreamParams called while the main queue is streaming
\* fails Busy, without a probe and without a change of mainConfig.
C15_StreamingSetParmBusy ==
    [][\A h \in Handles :
          SetParmWhileStreaming(h) =>
              /\ pc'[h] = "done"
              /\ loc'[h].ret = "Busy"
              /\ MainConfig' = MainConfig]_vars

\* C15 as the code has it: SetStreamParams called while the main queue is
\* streaming returns at once, without a probe and without a change of
\* mainConfig; the result is Busy, decided under the mutex, for a request
\* with the stream's buffer type and InvalidArgument, decided before the
\* mutex is taken, for any other.
C15_StreamingSetParmNoProbe ==
    [][\A h \in Handles :
          SetParmWhileStreaming(h) =>
              /\ pc'[h] = "done"
              /\ loc'[h].ret = IF loc[h].req.tok THEN "Busy" ELSE "EINVAL"
              /\ mutex' = mutex
              /\ MainConfig' = MainConfig]_vars

\* A stream parameter request has been refused Busy while the main queue
\* is streaming with a committed format.
C15_Witness ==
    \E h \in Handles :
        /\ pc[h] = "done"
        /\ loc[h].op = "S_PARM"
        /\ loc[h].req.tok
        /\ loc[h].ret = "Busy"
        /\ queue.streaming
        /\ cur_frame # 0

\* ------------------------------------------------------------ C16
\* The overlap distance of the specification between frame f and the
\* requested size, as a number (no word width).
OverlapDistance(f, rw, rh) ==
    f.wWidth * f.wHeight + rw * rh - 2 * Min(f.wWidth, rw) * Min(f.wHeight, rh)

\* C16: applied to a non-empty frame list and any requested width and
\* height, the frame-size selection returns the first frame in list order
\* whose overlap distance to the request is minimal over the list (so an
\* exact match whenever there is one); applied to an empty list it fails.
C16_SelectFrameSizeNearest ==
    ( nego.fn = "size" /\ nego.out # NotCalled ) =>
        IF nego.frames = << >>
        THEN nego.out = 0
        ELSE /\ nego.out \in 1..Len(nego.frames)
             /\ \A j \in 1..Len(nego.frames) :
                   /\ OverlapDistance(nego.frames[nego.out], nego.rw, nego.rh)
                         <= OverlapDistance(nego.frames[j], nego.rw, nego.rh)
                   /\ j < nego.out =>
                         OverlapDistance(nego.frames[nego.out], nego.rw, nego.rh)
                            < OverlapDistance(nego.frames[j], nego.rw, nego.rh)

\* ------------------------------------------------------------ C17
\* uvc_try_frame_interval has been applied to a discrete interval list.
DiscreteCallDone ==
    /\ nego.fn = "interval"
    /\ nego.frame.bFrameIntervalType # 0
    /\ nego.out # NotCalled

\* C17: applied to a non-empty ascending discrete interval list and any
\* requested interval, uvc_try_frame_interval returns an element of the
\* list whose absolute distance to the request is minimal over the list,
\* the larger one of two equally distant elements; a request of 40 against
\* <<33, 50>> returns 33.
C17_DiscreteIntervalNearest ==
    DiscreteCallDone =>
        LET list == nego.frame.dwFrameInterval
            req == nego.interval
        IN  /\ \E i \in 1..Len(list) : list[i] = nego.out
            /\ \A j \in 1..Len(list) :
                  /\ AbsDiff(req, nego.out) <= AbsDiff(req, list[j])
                  /\ AbsDiff(req, nego.out) = AbsDiff(req, list[j]) =>
                        list[j] <= nego.out
            /\ (list = <<33, 50>> /\ req = 40) => nego.out = 33

\* The request lies halfway between two neighbours of the list and the
\* larger one has been returned.
C17_Witness ==
    /\ DiscreteCallDone
    /\ \E i \in 1..(Len(nego.frame.dwFrameInterval) - 1) :
          LET lo == nego.frame.dwFrameInterval[i]
              hi == nego.frame.dwFrameInterval[i + 1]
          IN  /\ lo < nego.interval
              /\ nego.interval < hi
              /\ nego.interval - lo = hi - nego.interval
              /\ nego.out = hi

\* ------------------------------------------------------------ C18
\* uvc_try_frame_interval has been applied to a stepwise interval range.
StepwiseCallDone ==
    /\ nego.fn = "interval"
    /\ nego.frame.bFrameIntervalType = 0
    /\ nego.out # NotCalled

\* C18: applied to a stepwise range (min m, max M, step s > 0) and any
\* 32-bit requested interval, uvc_try_frame_interval returns a value v with
\* m <= v <= M that is M or m + k * s for an integer k >= 0, the sum taken
\* modulo 2^32.
C18_StepwiseIntervalInRange ==
    StepwiseCallDone =>
        LET m == nego.frame.dwFrameInterval[1]
            M == nego.frame.dwFrameInterval[2]
            s == nego.frame.dwFrameInterval[3]
        IN  /\ m <= nego.out
            /\ nego.out <= M
            /\ \/ nego.out = M
               \/ \E k \in 0..(U32 - 1) : nego.out = (m + k * s) % U32

\* ------------------------------------------------------------ C19
\* One-based position of the first still frame of format number fi with
\* exactly the requested width and height; 0 when the format is unknown or
\* has no such still frame.
ExactStillPosition(fi, w, h) ==
    IF fi = 0 THEN 0
    ELSE LET frames == StreamFormats[fi].still_frame
             exact == {i \in 1..Len(frames) :
                          frames[i].wWidth = w /\ frames[i].wHeight = h}
         IN  IF exact = {} THEN 0
             ELSE CHOOSE i \in exact : \A j \in exact : i <= j

\* C19: the step that completes a successful still format request leaves
\* stillConfigured set and a committed still configuration that holds the
\* format with the requested fourcc and parameters whose frame index is the
\* position of the first still frame with exactly the requested size; no
\* still format request succeeds without such a frame.
C19_StillCommitHoldsNegotiated ==
    [][\A h \in Handles :
          ( /\ pc[h] = "ss_commit"
            /\ pc'[h] = "done"
            /\ loc'[h].ret = "OK" ) =>
              LET req == loc[h].req
                  fi == FindFormat(req.fcc)
                  pos == ExactStillPosition(fi, req.w, req.h)
              IN  /\ pos > 0
                  /\ still_img_configed'
                  /\ still_format' = fi
                  /\ still_ctrl'.bFormatIndex = StreamFormats[fi].index
                  /\ still_ctrl'.bFrameIndex = pos]_vars

\* ------------------------------------------------------------ C20
\* Handle h issues a still format request with the stream's buffer type.
IssuesStillFormat(h) ==
    /\ pc[h] = "idle"
    /\ pc'[h] # "idle"
    /\ loc'[h].op = "S_FMT"
    /\ loc'[h].req.still
    /\ loc'[h].req.tok

\* Handle h takes one of the two steps of uvc_v4l2_set_format_still that
\* write the still pipeline: the free of the old queue, or the commit.
StillReconfigStep(h) ==
    /\ pc[h] \in {"ss_free", "ss_commit"}
    /\ pc'[h] # pc[h]

\* C20: a still format request issued while still_decoding is set fails
\* Busy, and however the decoder's setting of the flag interleaves with a
\* request, no step of the request frees the still queue's buffers or
\* commits a still configuration while the flag is set.
C20_NoStillReconfigWhileDecoding ==
    [][\A h \in Handles :
          /\ ( IssuesStillFormat(h) /\ still_decoding ) =>
                 ( pc'[h] = "done" /\ loc'[h].ret = "Busy" )
          /\ ( StillReconfigStep(h) /\ still_decoding ) =>
                 StillState' = StillState]_vars

\* ------------------------------------------------------------ C21
\* C21: once the device is disconnected an open fails (the handle stays
\* closed) and a request issued on an open handle that returns at once
\* returns Disconnected (-ENODEV).
C21_DisconnectedFailsRequests ==
    [][\A h \in Handles :
          /\ ( disconnected /\ pc[h] = "closed" ) => pc'[h] = "closed"
          /\ ( disconnected /\ pc[h] = "idle" /\ pc'[h] = "done" ) =>
                 loc'[h].ret = "ENODEV"]_vars

\* ------------------------------------------------------------ C22
\* Handle h is in, or has returned from, a VIDIOC_DQBUF.
InDequeue(h) == pc[h] \in {"dq_still", "done"} /\ loc[h].op = "DQBUF"

IssuesStillDequeue(h) ==
    /\ pc[h] = "idle"
    /\ pc'[h] # "idle"
    /\ loc'[h].op = "DQBUF"
    /\ loc'[h].req.still

C24_ConfigFrozenWhileAllocated ==
    [][/\ ( uvc_queue_allocated(queue) /\ uvc_queue_allocated(queue') ) =>
              MainConfig' = MainConfig
       /\ uvc_queue_allocated(queue') =>
              queue'.buf_size = ctrl'.dwMaxVideoFrameSize]_vars

\* ------------------------------------------------------------ C25
\* Handle h takes a step of a main-pipeline operation: a main format,
\* parameter, buffer, queue or stream request, or the close of a privileged
\* handle.
MainPipelineStep(h) ==
    /\ pc'[h] # pc[h]
    /\ LET l == IF loc'[h].op # "none" THEN loc'[h] ELSE loc[h]
       IN  /\ l.op \in {"S_FMT", "S_PARM", "REQBUFS", "QUERYBUF", "QBUF",
                        "DQBUF", "STREAMON", "STREAMOFF", "release"}
           /\ ~l.req.still

\* C25: no step of a main-pipeline operation changes the still queue's
\* buffers, the committed still configuration or the configured flag, and
\* no step of a still-pipeline operation changes mainConfig or the main
\* queue.
C25_PipelinesIndependent ==
    [][\A h \in Handles :
          /\ MainPipelineStep(h) => StillState' = StillState
          /\ StillStep(h) => ( MainConfig' = MainConfig /\ queue' = queue )]_vars

\* ------------------------------------------------------------ C26
\* Handle h takes a step that writes mainConfig, the still configuration or
\* a still flag, or that reads still_decoding on entry to
\* uvc_v4l2_set_format_still.
ConfigAccessStep(h) ==
    /\ pc'[h] # pc[h]
    /\ \/ MainConfig' # MainConfig
       \/ <<still_ctrl, still_format, still_frame>>' # <<still_ctrl, still_format, still_frame>>
       \/ <<still_img_configed, still_decoding, still_waiting_frame>>' #
              <<still_img_configed, still_decoding, still_waiting_frame>>
       \/ IssuesStillFormat(h)

\* C26: a request that reads or writes mainConfig, stillConfig or a still
\* flag does so holding stream->mutex, so no such step is taken while
\* another request holds the mutex.
C26_ConfigAccessUnderLock ==
    [][\A h \in Handles : ConfigAccessStep(h) => mutex \in {0, h}]_vars

\* ------------------------------------------------------------ C27
\* The handles inside uvc_acquire_privileges, after the atomic_inc_return
\* and before the atomic_dec of the failure path or the store of
\* UVC_HANDLE_ACTIVE.
Acquiring == {h \in ArbHandles : pc[h] \in {"acq_lost", "acq_won"}}

\* C27: while no AcquirePrivilege call is past its increment and not yet
\* finished, stream->active equals the number of handles whose state is
\* Active; it is 0 once every handle is closed.
C27_CountMatchesActive ==
    /\ Acquiring = {} => active = Cardinality(ActiveHandles)
    /\ ( \A h \in ArbHandles : pc[h] = "closed" ) => active = 0

\* ------------------------------------------------------------ C28
\* Handle h has returned from a main-pipeline VIDIOC_S_FMT, VIDIOC_S_PARM
\* or VIDIOC_S_INPUT that went through uvc_acquire_privileges and then
\* failed in its body.
FailedAfterAcquire(h) ==
    /\ pc[h] = "done"
    /\ loc[h].op \in {"S_FMT", "S_PARM", "S_INPUT"}
    /\ ~loc[h].req.still
    /\ loc[h].ret \in {"EINVAL", "EXT", "Busy"}

ReleasesExclusivity(h) == pc[h] = "rel_dismiss" /\ pc'[h] = "rel_end"

\* Handle h is closed as a Passive handle.
ClosesPassive(h) ==
    /\ pc[h] \in {"idle", "dead"}
    /\ pc'[h] = "closed"
    /\ hstate[h] = UVC_HANDLE_PASSIVE

\* C29: when the close of an Active handle releases the exclusivity the
\* main queue is neither streaming nor allocated; the close of a Passive
\* handle leaves the streaming state, both queues and stream->active
\* unchanged.
C29_CloseFreesBeforeRelease ==
    [][\A h \in Handles :
          /\ ReleasesExclusivity(h) =>
                ( ~uvc_queue_streaming(queue) /\ ~uvc_queue_allocated(queue) )
          /\ ClosesPassive(h) =>
                ( queue' = queue /\ still_queue' = still_queue /\ active' = active )]_vars

====
